---- MODULE Spec2Model ----
(***************************************************************************)
(* Model of src/src/model/bgem3.py: the dense embedding model              *)
(* (M3DenseEmbedModel) with its encoder, similarity, losses and training   *)
(* step, and the two inference subclasses (M3ForInference, M3ForScore).    *)
(*                                                                         *)
(* Tensors are records [shape, data] with data in row-major order, so that *)
(* view/reshape, transpose, cat and stack act as torch does.  Real numbers *)
(* are exact rationals <<numerator, denominator>> in lowest terms.         *)
(* A call returns a record [raised, value, calls]: the exception it raised *)
(* ("none" when it returned), its value, and the number of times it        *)
(* invoked the underlying pretrained encoder.                              *)
(***************************************************************************)
EXTENDS Integers, Sequences, FiniteSets

VARIABLES model_args, normlized, temperature, sub_batch_size,
          op, args, result

vars == <<model_args, normlized, temperature, sub_batch_size, op, args, result>>

\* ---------------------------------------------------------------- bounds
\* rows of a feature batch given to encode
MaxBatch == 3
\* largest configured encode_sub_batch_size
MaxSub == 4
\* query rows given to the similarity / retrieval loss
MaxQ == 2
\* passage rows of a 2D passage tensor
MaxP == 6
\* group size N of a grouped (3D) entity batch
MaxGroup == 2
\* documents given to select_topk
MaxDocs == 2
\* k given to select_topk
MaxK == 3

\* Python values that may be None are records: None itself, or a boxed int
None == [none |-> TRUE]
IntV(k) == [int |-> k]

\* the element of a one-element set; {F(x) : x \in {e}} computes e once
Only(S) == CHOOSE v \in S : TRUE

\* ------------------------------------------------------------- rationals
Abs(n) == IF n < 0 THEN -n ELSE n

RECURSIVE GCD(_, _)
GCD(a, b) == IF b = 0 THEN a ELSE GCD(b, a % b)

Rat(n, d) ==
    LET s == IF d < 0 THEN -1 ELSE 1
        g == GCD(Abs(n), Abs(d))
    IN  <<(s * n) \div g, (s * d) \div g>>

RInt(n) == <<n, 1>>
RAdd(x, y) == Rat(x[1] * y[2] + y[1] * x[2], x[2] * y[2])
RSub(x, y) == Rat(x[1] * y[2] - y[1] * x[2], x[2] * y[2])
RMul(x, y) == Rat(x[1] * y[1], x[2] * y[2])
RDiv(x, y) == Rat(x[1] * y[2], x[2] * y[1])
RLess(x, y) == x[1] * y[2] < y[1] * x[2]

ISqrt(n) == CHOOSE r \in 0..n : r * r = n
RSqrt(x) == <<ISqrt(x[1]), ISqrt(x[2])>>

RECURSIVE RSum(_, _)
RSum(f, n) == IF n = 0 THEN RInt(0) ELSE RAdd(RSum(f, n - 1), f[n])

\* --------------------------------------------------------------- tensors
RECURSIVE Prod(_, _)
Prod(s, n) == IF n = 0 THEN 1 ELSE Prod(s, n - 1) * s[n]
Numel(shape) == Prod(shape, Len(shape))

\* the sequence f[1], ..., f[n], each element computed once
RECURSIVE Flat(_, _)
Flat(f, n) == IF n = 0 THEN <<>> ELSE Append(Flat(f, n - 1), f[n])

T2(r, c, F(_, _)) ==
    [shape |-> <<r, c>>,
     data  |-> Flat([f \in 1..(r * c) |-> F((f - 1) \div c, (f - 1) % c)], r * c)]

T3(a, b, c, F(_, _, _)) ==
    [shape |-> <<a, b, c>>,
     data  |-> Flat([f \in 1..(a * b * c) |->
                       F((f - 1) \div (b * c), ((f - 1) \div c) % b, (f - 1) % c)],
                    a * b * c)]

Get2(t, i, j) == t.data[i * t.shape[2] + j + 1]
Get3(t, i, j, k) == t.data[(i * t.shape[2] + j) * t.shape[3] + k + 1]

\* tensor.view(rows, -1)
View2(t, rows) == [shape |-> <<rows, Numel(t.shape) \div rows>>, data |-> t.data]

\* torch.cat(list, 0) of 2D or 3D tensors with equal trailing shape
RECURSIVE CatData(_, _)
CatData(ts, n) == IF n = 0 THEN <<>> ELSE CatData(ts, n - 1) \o ts[n].data

RECURSIVE SumSize0(_, _)
SumSize0(ts, n) == IF n = 0 THEN 0 ELSE SumSize0(ts, n - 1) + ts[n].shape[1]

Cat0(ts) ==
    [shape |-> <<SumSize0(ts, Len(ts))>> \o Tail(ts[1].shape),
     data  |-> CatData(ts, Len(ts))]

\* torch.stack(list of [b, d], dim=1) -> [b, N, d]
Stack1(ts) ==
    T3(ts[1].shape[1], Len(ts), ts[1].shape[2],
       LAMBDA i, j, k: Get2(ts[j + 1], i, k))

\* t[:, j, :] of a 3D tensor -> [b, d]
Select1(t, j) == T2(t.shape[1], t.shape[3], LAMBDA i, k: Get3(t, i, j, k))
\* t[:, 1:, :] of a 3D tensor -> [b, N-1, d]
Tail1(t) == T3(t.shape[1], t.shape[2] - 1, t.shape[3],
               LAMBDA i, j, k: Get3(t, i, j + 1, k))
\* t[0] of a 2D tensor -> [d]
Row0(t) == [shape |-> <<t.shape[2]>>, data |-> SubSeq(t.data, 1, t.shape[2])]

TAdd(x, y) ==
    [shape |-> x.shape,
     data  |-> Flat([f \in 1..Len(x.data) |-> RAdd(x.data[f], y.data[f])], Len(x.data))]
TSub(x, y) ==
    [shape |-> x.shape,
     data  |-> Flat([f \in 1..Len(x.data) |-> RSub(x.data[f], y.data[f])], Len(x.data))]

\* --------------------------------------------------- results of a call
Ret(v, c) == [raised |-> "none", value |-> v, calls |-> c]
Raise(e, c) == [raised |-> e, value |-> None, calls |-> c]

\* ------------------------------------------------- external collaborators
\* The pretrained encoder (transformers XLMRobertaModel): hidden state of a
\* token, d = 2.  Tokens 0 and 3 differ only in norm.
Hidden(tok) ==
    CASE tok = 0 -> <<3, 4>>
      [] tok = 1 -> <<4, 3>>
      [] tok = 2 -> <<0, 5>>
      [] tok = 3 -> <<6, 8>>
      [] OTHER   -> <<0, 0>>
HiddenSize == Len(Hidden(0))

\* self.model(**features, return_dict=True).last_hidden_state : [b, L, d].
\* Called without input_ids the encoder raises ValueError.
Model(features) ==
    IF "input_ids" \notin DOMAIN features
    THEN Raise("ValueError", 1)
    ELSE LET ids == features["input_ids"]
             b == Len(ids)
             L == IF b = 0 THEN 0 ELSE Len(ids[1])
         IN  Ret(T3(b, L, HiddenSize,
                    LAMBDA i, p, k: RInt(Hidden(ids[i + 1][p + 1])[k + 1])), 1)

\* self.tokenizer(sentences, padding=True, ...): a sentence is modelled by
\* its token ids; all sentences here have the same length.
Tokenizer(sentences) ==
    [input_ids      |-> sentences,
     attention_mask |-> [i \in 1..Len(sentences) |-> [p \in 1..Len(sentences[i]) |-> 1]]]

\* F.normalize(x, dim=-1) of a 2D tensor: x / max(||x||, eps)
Normalize(t) ==
    LET d == t.shape[2]
        norm(i) == RSqrt(RSum([k \in 1..d |-> RMul(Get2(t, i, k - 1), Get2(t, i, k - 1))], d))
    IN  T2(t.shape[1], d,
           LAMBDA i, k: IF norm(i)[1] = 0 THEN Get2(t, i, k)
                        ELSE RDiv(Get2(t, i, k), norm(i)))

\* ------------------------------------------------------ M3DenseEmbedModel
\* __init__ without the reset of the temperature
init_keeps_temperature(margs) ==
    [normlized      |-> margs.normlized,
     temperature    |-> margs.temperature,
     sub_batch_size |-> margs.encode_sub_batch_size]

\* __init__: the fields of the constructed object
M3DenseEmbedModel__init__(margs) ==
    [normlized      |-> margs.normlized,
     temperature    |-> IF ~margs.normlized THEN RInt(1) ELSE margs.temperature,
     sub_batch_size |-> margs.encode_sub_batch_size]

\* _encode: one pass of the encoder, CLS pooling, optional normalisation
pooled(self, last_hidden_state) ==
    Only({IF self.normlized THEN Normalize(dense_vecs) ELSE dense_vecs :
             dense_vecs \in {Select1(last_hidden_state, 0)}})

encode_impl(self, features) ==
    Only({IF m.raised # "none" THEN m ELSE Ret(pooled(self, m.value), 1) :
             m \in {Model(features)}})

\* range(0, n, step) for step > 0, as the sequence of start indices
Range0(n, step) == [c \in 1..((n + step - 1) \div step) |-> (c - 1) * step]

\* end_inx one short: each chunk loses its last row
end_inx_short(i, s, n) == IF i + s - 1 < n THEN i + s - 1 ELSE n

end_inx(i, s, n) == IF i + s < n THEN i + s ELSE n

\* v[i:end] (0-based, end exclusive, clamped as Python slicing does)
Slice(v, i, e) == SubSeq(v, i + 1, IF e < Len(v) THEN e ELSE Len(v))

sub_features(features, i, e) == [k \in DOMAIN features |-> Slice(features[k], i, e)]

\* first raised exception of a sequence of call results, "none" if none
FirstRaised(rs) ==
    LET bad == {c \in 1..Len(rs) : rs[c].raised # "none"}
    IN  IF bad = {} THEN "none"
        ELSE rs[CHOOSE c \in bad : \A x \in bad : c <= x].raised

\* encoder invocations made by a sequence of calls, up to the first raise
RECURSIVE SumCalls(_, _)
SumCalls(rs, n) ==
    IF n = 0 THEN 0
    ELSE IF FirstRaised(SubSeq(rs, 1, n - 1)) # "none" THEN SumCalls(rs, n - 1)
    ELSE SumCalls(rs, n - 1) + rs[n].calls

\* the loop of encode: one _encode per chunk, in order
all_dense_vecs(self, features, s) ==
    LET n == Len(features["attention_mask"])
        starts == Range0(n, s)
    IN  Flat([c \in 1..Len(starts) |->
                encode_impl(self, sub_features(features, starts[c],
                                           end_inx(starts[c], s, n)))],
             Len(starts))

encode(self, features) ==
    IF features = None THEN Ret(None, 0)
    ELSE IF self.sub_batch_size # None /\ self.sub_batch_size # IntV(-1)
    THEN IF "attention_mask" \notin DOMAIN features THEN Raise("KeyError", 0)
         ELSE Only({IF FirstRaised(rs) # "none"
                    THEN Raise(FirstRaised(rs), SumCalls(rs, Len(rs)))
                    ELSE IF Len(rs) = 0 THEN Raise("RuntimeError", 0)
                    ELSE Ret(Cat0([c \in 1..Len(rs) |-> rs[c].value]), Len(rs)) :
                       rs \in {all_dense_vecs(self, features, self.sub_batch_size.int)}})
    ELSE encode_impl(self, features)

compute_similarity(q_reps, p_reps) ==
    IF Len(p_reps.shape) = 2
    THEN \* matmul([b, d], [d, m]) -> [b, m]
         T2(q_reps.shape[1], p_reps.shape[1],
            LAMBDA i, j: RSum([x \in 1..q_reps.shape[2] |->
                                 RMul(Get2(q_reps, i, x - 1), Get2(p_reps, j, x - 1))],
                              q_reps.shape[2]))
    ELSE \* matmul([b, d], [m, d, N]): q is broadcast over the leading axis
         \* of p, giving [m, b, N] with entry (k, i, j) = q_i . p_{k,j}
         T3(p_reps.shape[1], q_reps.shape[1], p_reps.shape[2],
            LAMBDA k, i, j: RSum([x \in 1..q_reps.shape[2] |->
                                    RMul(Get2(q_reps, i, x - 1), Get3(p_reps, k, j, x - 1))],
                                 q_reps.shape[2]))

TDivScalar(t, c) ==
    [shape |-> t.shape,
     data  |-> Flat([f \in 1..Len(t.data) |-> RDiv(t.data[f], c)], Len(t.data))]

dense_score(self, q_reps, p_reps) ==
    Only({View2(scores, q_reps.shape[1]) :
             scores \in {Only({TDivScalar(sim, self.temperature) :
                                  sim \in {compute_similarity(q_reps, p_reps)}})}})

\* nn.CrossEntropyLoss(reduction='mean')(input [b, C], target [b]): the loss
\* is kept as the application itself; a target outside 0..C-1 raises.
cross_entropy(input, target) ==
    IF \E i \in 1..Len(target) : target[i] < 0 \/ target[i] >= input.shape[2]
    THEN Raise("IndexError", 0)
    ELSE Ret([fn |-> "cross_entropy", reduction |-> "mean",
              input |-> input, target |-> target], 0)

\* torch.arange(n)
arange(n) == [i \in 1..n |-> i - 1]

\* targets without the passages-per-query multiplier
targets_diagonal(q_dense_vecs, p_dense_vecs) == arange(q_dense_vecs.shape[1])

\* targets with the multiplier rounded up instead of down
targets_ceil(q_dense_vecs, p_dense_vecs) ==
    LET b == q_dense_vecs.shape[1]
    IN  [i \in 1..b |-> (i - 1) * ((p_dense_vecs.shape[1] + b - 1) \div b)]

targets(q_dense_vecs, p_dense_vecs) ==
    LET idxs == arange(q_dense_vecs.shape[1])
    IN  [i \in 1..Len(idxs) |->
           idxs[i] * (p_dense_vecs.shape[1] \div q_dense_vecs.shape[1])]

entity_reconstruction_loss(self, q_dense_vecs, p_dense_vecs) ==
    Only({cross_entropy(dense_scores, targets(q_dense_vecs, p_dense_vecs)) :
             dense_scores \in {dense_score(self, q_dense_vecs, p_dense_vecs)}})

\* InfoNCE(negative_mode="paired")(query [b, d], positive_key [b, d],
\* negative_keys [b, M, d]): row i of the logits is the similarity of the
\* anchor to its positive followed by those to its own negatives; the
\* target is index 0 of every row.
InfoNCE(query, positive_key, negative_keys) ==
    LET b == query.shape[1]
        d == query.shape[2]
        M == negative_keys.shape[2]
        logits == T2(b, 1 + M,
                     LAMBDA i, j:
                       IF j = 0
                       THEN RSum([x \in 1..d |-> RMul(Get2(query, i, x - 1),
                                                       Get2(positive_key, i, x - 1))], d)
                       ELSE RSum([x \in 1..d |-> RMul(Get2(query, i, x - 1),
                                                       Get3(negative_keys, i, j - 1, x - 1))], d))
    IN  [fn |-> "info_nce", negative_mode |-> "paired",
         loss |-> Only({cross_entropy(l, [i \in 1..b |-> 0]).value : l \in {logits}})]

\* kg_embed_loss with the two negative sets exchanged
kg_embed_loss_swapped(self, head, link_desc, tail) ==
    Only({<<InfoNCE(TAdd(head_pos, link_desc), tail_pos, head_neg),
            InfoNCE(TSub(tail_pos, link_desc), head_pos, tail_neg)>> :
             head_pos \in {Select1(head, 0)}, head_neg \in {Tail1(head)},
             tail_pos \in {Select1(tail, 0)}, tail_neg \in {Tail1(tail)}})

kg_embed_loss(self, head, link_desc, tail) ==
    Only({<<InfoNCE(TAdd(head_pos, link_desc), tail_pos, tail_neg),
            InfoNCE(TSub(tail_pos, link_desc), head_pos, head_neg)>> :
             head_pos \in {Select1(head, 0)}, head_neg \in {Tail1(head)},
             tail_pos \in {Select1(tail, 0)}, tail_neg \in {Tail1(tail)}})

\* torch.stack(list(map(self.encode, x)), dim=1)
encode_group(self, x) ==
    Only({IF FirstRaised(rs) # "none"
          THEN Raise(FirstRaised(rs), SumCalls(rs, Len(rs)))
          ELSE Ret(Stack1([j \in 1..Len(rs) |-> rs[j].value]), SumCalls(rs, Len(rs))) :
             rs \in {Flat([j \in 1..Len(x) |-> encode(self, x[j])], Len(x))}})

\* the losses of forward, from the encoded inputs
forward_loss(self, head, head_desc, link_desc, tail, tail_desc) ==
    Only({IF loss1.raised # "none" THEN loss1
          ELSE Ret([fn |-> "mean3", loss1 |-> loss1.value,
                    loss2 |-> kg[1], loss3 |-> kg[2]], 0) :
             loss1 \in {Only({entity_reconstruction_loss(self, query, passage) :
                                 query \in {Cat0(<<Select1(head, 0), Select1(tail, 0)>>)},
                                 passage \in {Cat0(<<head_desc, tail_desc>>)}})},
             kg \in {kg_embed_loss(self, head, link_desc, tail)}})

\* inputs = (head, head_desc, link_desc, tail, tail_desc); the four grouped
\* inputs are encoded first, link_desc last
forward(self, inputs) ==
    Only({IF FirstRaised(rs) # "none" THEN Raise(FirstRaised(rs), SumCalls(rs, 5))
          ELSE Only({[l EXCEPT !.calls = SumCalls(rs, 5)] :
                        l \in {forward_loss(self, rs[1].value, rs[2].value, rs[5].value,
                                            rs[3].value, rs[4].value)}}) :
             rs \in {Only({Append(g, encode(self, inputs[3])) :
                             g \in {Flat([j \in 1..4 |->
                                            encode_group(self, inputs[<<1, 2, 4, 5>>[j]])], 4)}})}})

\* -------------------------------------------- M3ForInference, M3ForScore
\* Python binds a call's arguments before the body runs: a keyword the
\* callee does not declare, or too many positional arguments, is a TypeError.
InitParams == {"model_args"}
EncodeMaxPositional == 1

CallInit(kwnames) ==
    IF ~(kwnames \subseteq InitParams) THEN Raise("TypeError", 0) ELSE Ret(None, 0)

CallEncode(self, posargs) ==
    IF Len(posargs) > EncodeMaxPositional THEN Raise("TypeError", 0)
    ELSE encode(self, IF Len(posargs) = 0 THEN None ELSE posargs[1])

SubclassInitKeywords ==
    {"model_load_args", "normlized", "sentence_pooling_method", "temperature",
     "enable_sub_batch"}

\* M3ForInference.__init__ / M3ForScore.__init__: both start with the same
\* super().__init__(...) call; nothing after it runs when it raises.
M3ForInference__init__ == CallInit(SubclassInitKeywords)
M3ForScore__init__ == CallInit(SubclassInitKeywords)

DefaultEmbedBatchSize == 256
DefaultScoreBatchSize == 512

\* M3ForInference.__call__; sentences is [str |-> s] or [list |-> <<s, ...>>]
M3ForInference__call__(self, sentences, batch_size) ==
    LET input_was_string == "str" \in DOMAIN sentences
        sents == IF input_was_string THEN <<sentences.str>> ELSE sentences.list
        bs == IF input_was_string THEN None ELSE IntV(batch_size)
    IN  Only({IF all_embeddings.raised # "none" THEN all_embeddings
              ELSE IF input_was_string
              THEN Ret(Row0(all_embeddings.value), all_embeddings.calls)
              ELSE all_embeddings :
                 all_embeddings \in {CallEncode(self, <<Tokenizer(sents), bs>>)}})

\* tensor.squeeze_(): drop every axis of size 1
RECURSIVE SqueezeShape(_)
SqueezeShape(sh) ==
    IF sh = <<>> THEN <<>>
    ELSE IF Head(sh) = 1 THEN SqueezeShape(Tail(sh))
    ELSE <<Head(sh)>> \o SqueezeShape(Tail(sh))
Squeeze(t) == [shape |-> SqueezeShape(t.shape), data |-> t.data]

Min(a, b) == IF a < b THEN a ELSE b

\* scores.topk(kk).indices of a 1D tensor: kk distinct indices in order of
\* non-increasing score, none left out scoring higher than one returned;
\* the order among equal scores is not fixed by torch.
TopkIndices(scores, kk) ==
    LET n == scores.shape[1]
    IN  {p \in [1..kk -> 0..(n - 1)] :
           /\ \A a, b \in 1..kk : a < b =>
                 /\ p[a] # p[b]
                 /\ ~RLess(scores.data[p[a] + 1], scores.data[p[b] + 1])
           /\ \A j \in 0..(n - 1) :
                 (\A a \in 1..kk : p[a] # j) =>
                     \A a \in 1..kk : ~RLess(scores.data[p[a] + 1], scores.data[j + 1])}

\* the ranking step of select_topk, from the two encode results
topk_of(self, q, d, k) ==
    IF q.raised # "none" THEN {q}
    ELSE IF d.raised # "none" THEN {Raise(d.raised, q.calls + d.calls)}
    ELSE UNION {IF Len(scores.shape) = 0    \* len() of a 0-d tensor
                THEN {Raise("TypeError", q.calls + d.calls)}
                ELSE {Ret([shape |-> <<Len(p)>>, data |-> p], q.calls + d.calls) :
                         p \in TopkIndices(scores, Min(k, scores.shape[1]))} :
                   scores \in {Squeeze(dense_score(self, q.value, d.value))}}

\* M3ForScore.select_topk: the set of results the call can produce
select_topk(self, query, documents, k) ==
    UNION {topk_of(self, q, d, k) :
              q \in {CallEncode(self, <<Tokenizer(<<query>>)>>)},
              d \in {CallEncode(self, <<Tokenizer(documents), IntV(self.batch_size)>>)}}

\* ----------------------------------------------------------------- state
\* the receiver of a method call: the fields of the constructed object
Self == [normlized |-> normlized, temperature |-> temperature,
         sub_batch_size |-> sub_batch_size]

\* the receiver of M3ForScore methods: the base fields and batch_size.
\* M3ForInference.__init__ and M3ForScore.__init__ raise (InferenceInit,
\* ScoreInit), so the method bodies are run on a receiver holding the
\* fields the base constructor sets and the subclass defaults.
ScoreSelf == [normlized |-> normlized, temperature |-> temperature,
              sub_batch_size |-> sub_batch_size,
              batch_size |-> DefaultScoreBatchSize]

Temperatures == {RInt(1), Rat(1, 2)}
SubBatchSizes == {None, IntV(-1)} \cup {IntV(k) : k \in 1..MaxSub}
ModelArgs == [normlized : BOOLEAN, temperature : Temperatures,
              encode_sub_batch_size : SubBatchSizes]

\* tokenised sentences: two token positions each
Sentences == {<<0, 1>>, <<1, 2>>, <<3, 0>>}
SentenceAt(x) == CASE x % 3 = 0 -> <<0, 1>> [] x % 3 = 1 -> <<1, 2>> [] OTHER -> <<3, 0>>

SeqsUpTo(S, lo, hi) == UNION {[1..n -> S] : n \in lo..hi}

EmptyFeatures == [k \in {} |-> <<>>]
FeatureBatches == {Tokenizer(s) : s \in SeqsUpTo(Sentences, 1, MaxBatch)}

\* embedding tensors given directly to the similarity and the losses
VecA == <<Rat(3, 5), Rat(4, 5)>>
VecB == <<Rat(1, 1), Rat(0, 1)>>
Vecs == {VecA, VecB}
FromRows(rows) == T2(Len(rows), HiddenSize, LAMBDA i, k: rows[i + 1][k + 1])
QSet == {FromRows(r) : r \in SeqsUpTo(Vecs, 1, MaxQ)}
\* 2D passages: m rows, all VecA except (for x in 1..m) row x, which is VecB
P2Set == {FromRows([i \in 1..m |-> IF i = x THEN VecB ELSE VecA]) :
             m \in 1..MaxP, x \in 0..MaxP}
\* grouped batches [b, N, d]: member 0 of each group chosen per row, the
\* other members chosen per position
Grouped(pos, neg) ==
    T3(Len(pos), 1 + Len(neg), HiddenSize,
       LAMBDA i, j, k: IF j = 0 THEN pos[i + 1][k + 1] ELSE neg[j][k + 1])
LinkSet(b) == {FromRows([i \in 1..b |-> v]) : v \in Vecs}
P3Of(b) == {Grouped(pos, neg) : pos \in [1..b -> Vecs],
                                neg \in SeqsUpTo(Vecs, 0, MaxGroup - 1)}

\* tails of kg_embed_loss: the positives alternate, the negatives are free
TailsOf(b) == {Grouped([i \in 1..b |-> IF i % 2 = 1 THEN VecB ELSE VecA], neg) :
                  neg \in SeqsUpTo(Vecs, 0, MaxGroup - 1)}

\* the 5-tuple given to forward: b rows, groups of N members; member j of
\* a group is a feature batch over the b rows
GroupInput(b, N, base, off) ==
    [j \in 1..N |-> Tokenizer([i \in 1..b |-> SentenceAt(base[i] + off + j - 1)])]
ForwardInputsOf(b, N) ==
    {<<GroupInput(b, N, base, 0), GroupInput(b, N, base, 1),
       Tokenizer([i \in 1..b |-> SentenceAt(base[i] + 2)]),
       GroupInput(b, N, base, 1), GroupInput(b, N, base, 2)>> :
       base \in [1..b -> 0..2]}
ForwardInputs == UNION {ForwardInputsOf(b, N) : b \in 1..MaxQ, N \in 1..MaxGroup}

Init ==
    /\ model_args \in ModelArgs
    /\ normlized = M3DenseEmbedModel__init__(model_args).normlized
    /\ temperature = M3DenseEmbedModel__init__(model_args).temperature
    /\ sub_batch_size = M3DenseEmbedModel__init__(model_args).sub_batch_size
    /\ op = "ready"
    /\ args = <<>>
    /\ result = Ret(None, 0)

Call(name, a, r) ==
    /\ op = "ready"
    /\ op' = name
    /\ args' = a
    /\ result' = r
    /\ UNCHANGED <<model_args, normlized, temperature, sub_batch_size>>

Encode ==
    /\ op = "ready"
    /\ \E self \in {Self} :
       \E features \in {None, EmptyFeatures} \cup FeatureBatches :
          Call("encode", <<features>>, encode(self, features))

ComputeSimilarity ==
    /\ op = "ready"
    /\ \E q \in QSet :
       \E p \in P2Set \cup P3Of(q.shape[1]) :
          Call("compute_similarity", <<q, p>>, Ret(compute_similarity(q, p), 0))

DenseScore ==
    /\ op = "ready"
    /\ \E self \in {Self} :
       \E q \in QSet :
       \E p \in P2Set \cup P3Of(q.shape[1]) :
          Call("dense_score", <<q, p>>, Ret(dense_score(self, q, p), 0))

EntityReconstructionLoss ==
    /\ op = "ready"
    /\ \E self \in {Self} :
       \E q \in QSet :
       \E p \in P2Set \cup P3Of(q.shape[1]) :
          Call("entity_reconstruction_loss", <<q, p>>,
               entity_reconstruction_loss(self, q, p))

KgEmbedLoss ==
    /\ op = "ready"
    /\ \E self \in {Self} :
       \E b \in 1..MaxQ :
       \E link \in LinkSet(b) :
       \E head \in P3Of(b) :
       \E tail \in TailsOf(b) :
          /\ head.shape = tail.shape
          /\ Call("kg_embed_loss", <<head, link, tail>>,
                  Ret(kg_embed_loss(self, head, link, tail), 0))

Forward ==
    /\ op = "ready"
    /\ \E self \in {Self} :
       \E inputs \in ForwardInputs :
          Call("forward", inputs, forward(self, inputs))

InferenceInit ==
    /\ op = "ready"
    /\ Call("M3ForInference.__init__", <<>>, M3ForInference__init__)

ScoreInit ==
    /\ op = "ready"
    /\ Call("M3ForScore.__init__", <<>>, M3ForScore__init__)

InferenceCall ==
    /\ op = "ready"
    /\ \E self \in {Self} :
       \E s \in Sentences :
       \E asString \in BOOLEAN :
       \E batch_size \in {DefaultEmbedBatchSize, 1} :
          LET sentences == IF asString THEN [str |-> s] ELSE [list |-> <<s>>]
          IN  Call("M3ForInference.__call__", <<sentences, batch_size>>,
                   M3ForInference__call__(self, sentences, batch_size))

SelectTopk ==
    /\ op = "ready"
    /\ \E self \in {ScoreSelf} :
       \E query \in Sentences :
       \E documents \in SeqsUpTo(Sentences, 1, MaxDocs) :
       \E k \in 1..MaxK :
       \E r \in select_topk(self, query, documents, k) :
          Call("select_topk", <<query, documents, k>>, r)

\* the caller drops the returned value; the object is ready for the next call
Discard ==
    /\ op # "ready"
    /\ op' = "ready"
    /\ args' = <<>>
    /\ result' = Ret(None, 0)
    /\ UNCHANGED <<model_args, normlized, temperature, sub_batch_size>>

Next ==
    \/ Encode
    \/ ComputeSimilarity
    \/ DenseScore
    \/ EntityReconstructionLoss
    \/ KgEmbedLoss
    \/ Forward
    \/ InferenceInit
    \/ ScoreInit
    \/ InferenceCall
    \/ SelectTopk
    \/ Discard

Spec == Init /\ [][Next]_vars

\* the operations by area, each followed by Discard
NextEncode == Encode \/ Discard
SpecEncode == Init /\ [][NextEncode]_vars

NextScore == ComputeSimilarity \/ DenseScore \/ EntityReconstructionLoss \/ Discard
SpecScore == Init /\ [][NextScore]_vars

NextKg == KgEmbedLoss \/ Discard
SpecKg == Init /\ [][NextKg]_vars

NextForward == Forward \/ Discard
SpecForward == Init /\ [][NextForward]_vars

NextInference == InferenceInit \/ ScoreInit \/ InferenceCall \/ SelectTopk \/ Discard
SpecInference == Init /\ [][NextInference]_vars

\* ------------------------------------------------------------ properties
\* dot product of two vectors given as sequences of rationals
Dot(u, v) == RSum([x \in 1..Len(u) |-> RMul(u[x], v[x])], Len(u))
\* row i (0-based) of a 2D tensor, member (i, j) of a 3D tensor
RowOf(t, i) == [k \in 1..t.shape[2] |-> Get2(t, i, k - 1)]
MemberOf(t, i, j) == [k \in 1..t.shape[3] |-> Get3(t, i, j, k - 1)]
IsBatch(features) == "attention_mask" \in DOMAIN features
SubBatching == sub_batch_size # None /\ sub_batch_size # IntV(-1)
\* the feature batch holding only row i (1-based) of a batch
OneRow(features, i) == [k \in DOMAIN features |-> <<features[k][i]>>]

\* C1: with sub-batching enabled (a positive sub_batch_size), encode of a
\* batch of n >= 1 rows returns n rows, in the original order, each the
\* embedding of its own input row, and the whole result equals the one
\* returned with sub-batching disabled (None, and -1); one encoder pass is
\* made per chunk of sub_batch_size rows.
SubBatchingEquivalence ==
    (op = "encode" /\ IsBatch(args[1]) /\ SubBatching) =>
        LET features == args[1]
            n == Len(features["attention_mask"])
            s == sub_batch_size.int
        IN  /\ result.raised = "none"
            /\ result.value.shape = <<n, HiddenSize>>
            /\ result.value = encode([Self EXCEPT !.sub_batch_size = None], features).value
            /\ result.value = encode([Self EXCEPT !.sub_batch_size = IntV(-1)], features).value
            /\ \A i \in 1..n :
                  RowOf(result.value, i - 1)
                    = RowOf(encode_impl(Self, OneRow(features, i)).value, 0)
            /\ result.calls = (n + s - 1) \div s

\* C1 witness: three rows in chunks of two (s < n, n not a multiple of s)
SubBatchingWitness ==
    /\ op = "encode"
    /\ IsBatch(args[1])
    /\ sub_batch_size = IntV(2)
    /\ Len(args[1]["attention_mask"]) = 3
    /\ args[1]["input_ids"][1] # args[1]["input_ids"][3]
    /\ result.raised = "none"
    /\ result.calls = 2

\* C2: in forward, for every query row i (0 <= i < 2b) the cross-entropy
\* target is i * N, and the logit at that target is the similarity of query
\* i with the first description of group i.
ForwardTargetsFirstOfGroup ==
    (op = "forward") =>
        LET N == Len(args[2])
            b == Len(args[2][1]["input_ids"])
            loss1 == result.value.loss1
            q(i) == IF i < b THEN RowOf(encode(Self, args[1][1]).value, i)
                    ELSE RowOf(encode(Self, args[4][1]).value, i - b)
            d(i) == IF i < b THEN RowOf(encode(Self, args[2][1]).value, i)
                    ELSE RowOf(encode(Self, args[5][1]).value, i - b)
        IN  /\ result.raised = "none"
            /\ loss1.input.shape = <<2 * b, 2 * b * N>>
            /\ \A i \in 0..(2 * b - 1) :
                  /\ loss1.target[i + 1] = i * N
                  /\ Get2(loss1.input, i, i * N) = RDiv(Dot(q(i), d(i)), temperature)

\* C3: compute_similarity of Q [b, d] with a 2D P [b_p, d] is the [b, b_p]
\* matrix of Q_i . P_j; with a 3D P [b, n, d] it is the [b, n] matrix of
\* Q_i . P_{i,j}.
SimilarityShapeLaw ==
    (op = "compute_similarity") =>
        LET q == args[1]
            p == args[2]
            sim == result.value
        IN  IF Len(p.shape) = 2
            THEN /\ sim.shape = <<q.shape[1], p.shape[1]>>
                 /\ \A i \in 0..(q.shape[1] - 1) : \A j \in 0..(p.shape[1] - 1) :
                       Get2(sim, i, j) = Dot(RowOf(q, i), RowOf(p, j))
            ELSE /\ sim.shape = <<q.shape[1], p.shape[2]>>
                 /\ \A i \in 0..(q.shape[1] - 1) : \A j \in 0..(p.shape[2] - 1) :
                       Get2(sim, i, j) = Dot(RowOf(q, i), MemberOf(p, i, j))

\* C4: for Q with b rows and a 2D P with b * r rows (r >= 1) the retrieval
\* loss is the mean-reduced cross-entropy of the [b, b * r] logits
\* Q_i . P_j / temperature against the targets i * r.
RetrievalTargets ==
    (/\ op = "entity_reconstruction_loss"
     /\ Len(args[2].shape) = 2
     /\ args[2].shape[1] % args[1].shape[1] = 0) =>
        LET q == args[1]
            p == args[2]
            b == q.shape[1]
            r == p.shape[1] \div b
        IN  /\ result.raised = "none"
            /\ result.value.fn = "cross_entropy"
            /\ result.value.reduction = "mean"
            /\ result.value.input.shape = <<b, b * r>>
            /\ \A i \in 0..(b - 1) : \A j \in 0..(b * r - 1) :
                  Get2(result.value.input, i, j)
                    = RDiv(Dot(RowOf(q, i), RowOf(p, j)), temperature)
            /\ result.value.target = [i \in 1..b |-> (i - 1) * r]

\* C4 witness: b = 2, r = 3, targets [0, 3]
RetrievalTargetsWitness ==
    /\ op = "entity_reconstruction_loss"
    /\ args[1].shape[1] = 2
    /\ args[2].shape = <<6, HiddenSize>>
    /\ result.raised = "none"
    /\ result.value.target = <<0, 3>>

\* C5: kg_embed_loss returns (forward, backward): forward is the InfoNCE of
\* head[:,0] + link_desc against tail[:,0] with negatives tail[:,1:],
\* backward that of tail[:,0] - link_desc against head[:,0] with negatives
\* head[:,1:]; other head negatives leave forward as it is, other tail
\* negatives leave backward as it is.
KgLossDirectionality ==
    (op = "kg_embed_loss") =>
        \A head \in {args[1]} : \A link_desc \in {args[2]} : \A tail \in {args[3]} :
        \A forward_anchor \in {TAdd(Select1(head, 0), link_desc)} :
        \A backward_anchor \in {TSub(Select1(tail, 0), link_desc)} :
        \A self \in {Self} :
        LET b == head.shape[1]
            N == head.shape[2]
            SameButNegatives(t) ==
                {T3(b, N, HiddenSize,
                    LAMBDA i, j, k: IF j = 0 THEN Get3(t, i, 0, k) ELSE neg[j][k + 1]) :
                    neg \in [1..(N - 1) -> Vecs]}
        IN  /\ result.value[1] = InfoNCE(forward_anchor, Select1(tail, 0), Tail1(tail))
            /\ result.value[2] = InfoNCE(backward_anchor, Select1(head, 0), Tail1(head))
            /\ \A i \in 0..(b - 1) : \A j \in 1..(N - 1) :
                  /\ Get2(result.value[1].loss.input, i, j)
                       = Dot(RowOf(forward_anchor, i), MemberOf(tail, i, j))
                  /\ Get2(result.value[2].loss.input, i, j)
                       = Dot(RowOf(backward_anchor, i), MemberOf(head, i, j))
            /\ \A head2 \in SameButNegatives(head) :
                  kg_embed_loss(self, head2, link_desc, tail)[1] = result.value[1]
            /\ \A tail2 \in SameButNegatives(tail) :
                  kg_embed_loss(self, head, link_desc, tail2)[2] = result.value[2]

\* C5 witness: groups with a negative, head and tail negatives differing
KgLossWitness ==
    /\ op = "kg_embed_loss"
    /\ args[1].shape[1] = 2
    /\ args[1].shape[2] = 2
    /\ Tail1(args[1]) # Tail1(args[3])
    /\ result.value[1] # result.value[2]

\* C6: select_topk returns, for n >= 1 documents and k >= 1, exactly
\* min(k, n) distinct document indices in order of descending score, no
\* document left out scoring higher than a returned one, and raises nothing.
TopkCorrectAndClamped ==
    (op = "select_topk") =>
        LET documents == args[2]
            k == args[3]
            n == Len(documents)
            kk == IF k < n THEN k ELSE n
            qv == encode(ScoreSelf, Tokenizer(<<args[1]>>)).value
            dv == encode(ScoreSelf, Tokenizer(documents)).value
            score(j) == RDiv(Dot(RowOf(qv, 0), RowOf(dv, j)), temperature)
            idx == result.value.data
        IN  /\ result.raised = "none"
            /\ result.value.shape = <<kk>>
            /\ \A a \in 1..kk : idx[a] \in 0..(n - 1)
            /\ \A a, c \in 1..kk : a < c =>
                  /\ idx[a] # idx[c]
                  /\ ~RLess(score(idx[a]), score(idx[c]))
            /\ \A j \in 0..(n - 1) : (\A a \in 1..kk : idx[a] # j) =>
                  \A a \in 1..kk : ~RLess(score(idx[a]), score(j))

\* C7: M3ForInference.__call__ with a single string returns one embedding
\* vector, and with the one-element list of that string a length-1 batch
\* whose row is that vector; the embedding is the encoder's for the input.
SingleStringShortcut ==
    (op = "M3ForInference.__call__") =>
        LET sentences == args[1]
            s == IF "str" \in DOMAIN sentences THEN sentences.str ELSE sentences.list[1]
            vec == RowOf(encode(Self, Tokenizer(<<s>>)).value, 0)
        IN  /\ result.raised = "none"
            /\ IF "str" \in DOMAIN sentences
               THEN /\ result.value.shape = <<HiddenSize>>
                    /\ result.value.data = vec
               ELSE /\ result.value.shape = <<1, HiddenSize>>
                    /\ RowOf(result.value, 0) = vec

\* C8: in a constructed model the temperature is 1 when normalisation is
\* disabled and the configured temperature when it is enabled, and no
\* operation changes normlized or temperature.
TemperatureFixed ==
    /\ [](/\ normlized = model_args.normlized
          /\ ~normlized => temperature = RInt(1)
          /\ normlized => temperature = model_args.temperature)
    /\ [][normlized' = normlized /\ temperature' = temperature]_vars

\* C8 witness: normalisation disabled, another temperature configured, and
\* dense_score has run
TemperatureWitness ==
    /\ op = "dense_score"
    /\ ~normlized
    /\ model_args.temperature # RInt(1)
    /\ temperature = RInt(1)

\* C9: encode of absent features (None) or of an empty feature mapping
\* returns an absent result, raises nothing and does not invoke the encoder,
\* with sub-batching enabled or disabled.
EmptyInputIsNoOp ==
    (op = "encode" /\ args[1] \in {None, EmptyFeatures}) =>
        /\ result.raised = "none"
        /\ result.value = None
        /\ result.calls = 0

\* C10: with a 2D P whose row count is no multiple of b (|P| >= b >= 1) the
\* retrieval loss raises nothing, uses r = floor(|P| / b), every target lies
\* in [0, b * r), no trailing passage row is a target, and every logits row
\* has all |P| columns.
SilentTruncation ==
    (/\ op = "entity_reconstruction_loss"
     /\ Len(args[2].shape) = 2
     /\ args[2].shape[1] >= args[1].shape[1]
     /\ args[2].shape[1] % args[1].shape[1] # 0) =>
        LET b == args[1].shape[1]
            m == args[2].shape[1]
            r == m \div b
            target == result.value.target
        IN  /\ result.raised = "none"
            /\ Len(target) = b
            /\ \A i \in 1..b : target[i] = (i - 1) * r /\ target[i] \in 0..(b * r - 1)
            /\ \A j \in (b * r)..(m - 1) : \A i \in 1..b : target[i] # j
            /\ result.value.input.shape = <<b, m>>

\* C10 witness: 2 queries, 5 passages: targets 0 and 2, row 4 never a target
SilentTruncationWitness ==
    /\ op = "entity_reconstruction_loss"
    /\ args[1].shape[1] = 2
    /\ args[2].shape = <<5, HiddenSize>>
    /\ result.raised = "none"
    /\ result.value.target = <<0, 2>>
====
